---- MODULE Spec2Model ----
(***************************************************************************)
(* Model of main.py: the people/sentence analysis tool.                    *)
(*   - GraphAnalyzer.find_indirect_connections (the bounded path search)   *)
(*   - PersonAnalyzer.find_direct_connections (the co-mention graph)       *)
(*   - DataLoader / TaskManager.execute / the command-line entry point     *)
(* A Python str is a sequence of one-character strings; a Python list is a *)
(* sequence; a dict is a function whose DOMAIN is its key set.             *)
(***************************************************************************)
EXTENDS Integers, Sequences, FiniteSets, TLC

VARIABLES
    pc,             \* position of the running code
    graph,          \* GraphAnalyzer.graph
    person,         \* find_indirect_connections argument (the source)
    target,         \* find_indirect_connections argument
    max_depth,      \* find_indirect_connections argument
    queue,          \* local list of (current, path) tuples
    paths,          \* local result list
    current,        \* the node of the entry just dequeued
    path,           \* the path of the entry just dequeued
    ni,             \* position of the for loop in the neighbor list
    people,         \* PersonAnalyzer.people / DataLoader.people
    sentences,      \* the sentence list handed to find_direct_connections
    connections,    \* the defaultdict(set) built by find_direct_connections
    si,             \* position of the sentence loop
    result,         \* value returned by find_direct_connections
    entry,          \* "main": the command line; "instance": a caller of execute
    sentence_file,  \* the three input files as csv.reader sees them
    people_file,
    common_words_file,
    data_loader,    \* the DataLoader object
    task_manager,   \* TaskManager: text_processor, word_counter, person_analyzer
    graph_analyzer, \* TaskManager.graph_analyzer
    output,         \* what has been printed on stdout, one entry per print
    exit_status,    \* the process's exit status once it has ended
    calls           \* the task numbers execute was called with, in order

vars == <<pc, graph, person, target, max_depth, queue, paths, current, path,
          ni, people, sentences, connections, si, result, entry, sentence_file,
          people_file, common_words_file, data_loader, task_manager,
          graph_analyzer, output, exit_status, calls>>

pathVars == <<graph, person, target, max_depth, queue, paths, current, path, ni>>
connVars == <<people, sentences, connections, si, result>>
fileVars == <<entry, sentence_file, people_file, common_words_file>>
taskVars == <<entry, sentence_file, people_file, common_words_file, data_loader,
              task_manager, graph_analyzer, output, exit_status, calls>>

None == "None"

(***************************************************************************)
(* Strings: characters, str.lower, ordering used by sorted().              *)
(***************************************************************************)
UpperLetters == <<"A","B","C","D","E","F","G","H","I","J","K","L","M",
                  "N","O","P","Q","R","S","T","U","V","W","X","Y","Z">>
LowerLetters == <<"a","b","c","d","e","f","g","h","i","j","k","l","m",
                  "n","o","p","q","r","s","t","u","v","w","x","y","z">>
\* code-point order of the characters the model uses
Ascii == <<" ", ",", ".">> \o UpperLetters \o LowerLetters

Chars == {Ascii[i] : i \in 1..Len(Ascii)}

\* ord(c)
OrdTable == [c \in Chars |-> CHOOSE i \in 1..Len(Ascii) : Ascii[i] = c]
Ord(c) == OrdTable[c]

\* c.lower() for one character
LowerTable ==
    [c \in Chars |->
        IF \E i \in 1..Len(UpperLetters) : UpperLetters[i] = c
        THEN LowerLetters[CHOOSE i \in 1..Len(UpperLetters) : UpperLetters[i] = c]
        ELSE c]
LowerChar(c) == LowerTable[c]

\* str.lower()
Lower(s) == [i \in 1..Len(s) |-> LowerChar(s[i])]

\* s < t for two str values (lexicographic by code point)
StrLess(s, t) ==
    \E k \in 1..(Len(t)) :
        /\ \A j \in 1..(k-1) : j <= Len(s) /\ s[j] = t[j]
        /\ \/ k = Len(s) + 1
           \/ k <= Len(s) /\ Ord(s[k]) < Ord(t[k])

\* sorted(v) for a set of str
RECURSIVE Sorted(_)
Sorted(S) ==
    IF S = {} THEN <<>>
    ELSE LET m == CHOOSE x \in S : \A y \in S \ {x} : StrLess(x, y)
         IN  <<m>> \o Sorted(S \ {m})

Range(s) == {s[i] : i \in 1..Len(s)}

(***************************************************************************)
(* People of the roster.                                                   *)
(***************************************************************************)
HarryPotter     == <<"H","a","r","r","y"," ","P","o","t","t","e","r">>
HermioneGranger == <<"H","e","r","m","i","o","n","e"," ","G","r","a","n","g","e","r">>
RonWeasley      == <<"R","o","n"," ","W","e","a","s","l","e","y">>
DracoMalfoy     == <<"D","r","a","c","o"," ","M","a","l","f","o","y">>
LunaLovegood    == <<"L","u","n","a"," ","L","o","v","e","g","o","o","d">>
Roster == <<HarryPotter, HermioneGranger, RonWeasley, DracoMalfoy, LunaLovegood>>

NumPersons == 4
MaxDepth == 3

Persons == {Roster[i] : i \in 1..(IF NumPersons < Len(Roster) THEN NumPersons ELSE Len(Roster))}

(***************************************************************************)
(* GraphAnalyzer.find_indirect_connections                                 *)
(***************************************************************************)
\* variant: the two membership tests joined by `and`
EndpointMissingBoth(g, p, t) == p \notin DOMAIN g /\ t \notin DOMAIN g

\* person not in self.graph or target not in self.graph
EndpointMissing(g, p, t) == p \notin DOMAIN g \/ t \notin DOMAIN g

\* self.graph.get(current, [])
Neighbors(g, c) == IF c \in DOMAIN g THEN g[c] ELSE <<>>

\* variant: len(path) > max_depth + 1
TooDeepOffByOne(p, d) == Len(p) > d + 1

\* variant: len(path) + 1 >= max_depth
TooDeepCountingTarget(p, d) == Len(p) + 1 >= d

\* len(path) > max_depth
TooDeep(p, d) == Len(p) > d

\* neighbor not in path
NotInPath(n, p) == \A i \in 1..Len(p) : p[i] # n

\* the body of the for loop: returns <<queue, paths>> after one neighbor
Visit(n, p, t, q, ps) ==
    IF n = t
    THEN <<q, Append(ps, Append(p, n))>>
    ELSE IF NotInPath(n, p)
         THEN <<Append(q, <<n, Append(p, n)>>), ps>>
         ELSE <<q, ps>>

\* variant: queue.pop() takes the newest entry
PopLast(q) == <<q[Len(q)], SubSeq(q, 1, Len(q) - 1)>>

\* queue.pop(0): <<popped entry, rest of the queue>>
Pop(q) == <<Head(q), Tail(q)>>

\* lines 109-113 as one loop over the neighbor list ns, from position i
RECURSIVE VisitAll(_, _, _, _, _, _)
VisitAll(ns, i, p, t, q, ps) ==
    IF i > Len(ns) THEN <<q, ps>>
    ELSE LET r == Visit(ns[i], p, t, q, ps)
         IN  VisitAll(ns, i + 1, p, t, r[1], r[2])

\* lines 105-115 as one loop
RECURSIVE Search(_, _, _, _, _)
Search(g, t, d, q, ps) ==
    IF q = <<>> THEN ps
    ELSE LET e == Pop(q) IN
         IF TooDeep(e[1][2], d) THEN ps
         ELSE LET r == VisitAll(Neighbors(g, e[1][1]), 1, e[1][2], t, e[2], ps)
              IN  Search(g, t, d, r[1], r[2])

\* lines 97-115 as one call
FindIndirectConnections(g, p, t, d) ==
    IF EndpointMissing(g, p, t) THEN <<>>
    ELSE Search(g, t, d, << <<p, <<p>> >> >>, <<>>)

\* lines 99-103
Enter ==
    /\ pc = "start"
    /\ IF EndpointMissing(graph, person, target)
       THEN /\ pc' = "done"
            /\ paths' = <<>>
            /\ UNCHANGED queue
       ELSE /\ pc' = "while"
            /\ paths' = <<>>
            /\ queue' = << <<person, <<person>> >> >>
    /\ UNCHANGED <<graph, person, target, max_depth, current, path, ni>>
    /\ UNCHANGED <<connVars, taskVars>>

\* lines 105-108: the loop test, the pop and the depth test
Dequeue ==
    /\ pc = "while"
    /\ queue # <<>>
    /\ LET e == Pop(queue) IN
         /\ current' = e[1][1]
         /\ path' = e[1][2]
         /\ queue' = e[2]
         /\ IF TooDeep(e[1][2], max_depth)
            THEN pc' = "done" /\ ni' = ni
            ELSE pc' = "for" /\ ni' = 1
    /\ UNCHANGED <<graph, person, target, max_depth, paths>>
    /\ UNCHANGED <<connVars, taskVars>>

\* lines 109-113: one neighbor of the for loop
ForNeighbor ==
    /\ pc = "for"
    /\ ni <= Len(Neighbors(graph, current))
    /\ LET r == Visit(Neighbors(graph, current)[ni], path, target, queue, paths) IN
         /\ queue' = r[1]
         /\ paths' = r[2]
    /\ ni' = ni + 1
    /\ UNCHANGED <<pc, graph, person, target, max_depth, current, path>>
    /\ UNCHANGED <<connVars, taskVars>>

\* the for loop is exhausted: back to the while test
ForDone ==
    /\ pc = "for"
    /\ ni > Len(Neighbors(graph, current))
    /\ pc' = "while"
    /\ UNCHANGED <<graph, person, target, max_depth, queue, paths, current, path, ni>>
    /\ UNCHANGED <<connVars, taskVars>>

\* line 105 with an empty queue, line 115
QueueEmpty ==
    /\ pc = "while"
    /\ queue = <<>>
    /\ pc' = "done"
    /\ UNCHANGED pathVars
    /\ UNCHANGED <<connVars, taskVars>>

\* the graphs find_direct_connections returns: undirected, no self loop,
\* every key has a neighbor, adjacency lists sorted
Pairs == {e \in SUBSET Persons : Cardinality(e) = 2}
GraphOf(E) ==
    [k \in UNION E |-> Sorted({b \in Persons : {k, b} \in E})]

InitPath ==
    /\ pc = "start"
    /\ graph \in {GraphOf(E) : E \in SUBSET Pairs}
    /\ person \in Persons
    /\ target \in Persons
    /\ max_depth \in 1..MaxDepth
    /\ queue = <<>>
    /\ paths = <<>>
    /\ current = None
    /\ path = <<>>
    /\ ni = 0
    /\ people = <<>>
    /\ sentences = <<>>
    /\ connections = <<>>
    /\ si = 0
    /\ result = None
    /\ entry = None
    /\ sentence_file = None
    /\ people_file = None
    /\ common_words_file = None
    /\ data_loader = None
    /\ task_manager = None
    /\ graph_analyzer = None
    /\ output = <<>>
    /\ exit_status = None
    /\ calls = <<>>

NextPath == Enter \/ Dequeue \/ ForNeighbor \/ ForDone \/ QueueEmpty

SpecPath == InitPath /\ [][NextPath]_vars

(***************************************************************************)
(* PersonAnalyzer.find_direct_connections                                  *)
(***************************************************************************)
\* alias in sentence: substring containment of two str values
IsSubstring(a, s) ==
    \E k \in 0..(Len(s) - Len(a)) : \A i \in 1..Len(a) : s[k + i] = a[i]

\* line 85: the names with some alias contained in sentence.lower()
Mentioned(pp, sentence) ==
    LET lowered == Lower(sentence)
    IN  {name \in DOMAIN pp : \E alias \in pp[name] : IsSubstring(alias, lowered)}

\* itertools.combinations(mentioned_people, 2): each unordered pair once; the
\* order inside a pair follows the set's iteration order, which the two adds
\* of the loop body make irrelevant
Combinations(S) == {pr \in S \X S : StrLess(pr[1], pr[2])}

\* connections[k].add(v) on a defaultdict(set)
SetAdd(conn, k, v) ==
    [x \in (DOMAIN conn) \cup {k} |->
        IF x = k
        THEN (IF k \in DOMAIN conn THEN conn[k] ELSE {}) \cup {v}
        ELSE conn[x]]

\* variant: only connections[p1].add(p2)
AddPairOneWay(conn, p1, p2) == SetAdd(conn, p1, p2)

\* variant: connections[p1] = {p2}; connections[p2] = {p1}
AddPairOverwrite(conn, p1, p2) ==
    [x \in (DOMAIN conn) \cup {p1, p2} |->
        IF x = p1 THEN {p2} ELSE IF x = p2 THEN {p1} ELSE conn[x]]

\* lines 87-88
AddPair(conn, p1, p2) == SetAdd(SetAdd(conn, p1, p2), p2, p1)

\* lines 86-88: the inner for loop over the pairs
RECURSIVE AddPairs(_, _)
AddPairs(conn, prs) ==
    IF prs = {} THEN conn
    ELSE LET pr == CHOOSE x \in prs : TRUE
         IN  AddPairs(AddPair(conn, pr[1], pr[2]), prs \ {pr})

\* line 89
SortedAdjacency(conn) == [k \in DOMAIN conn |-> Sorted(conn[k])]

\* lines 85-88: the body of the outer loop for one sentence
ScanOne(conn, pp, sentence) ==
    AddPairs(conn, Combinations(Mentioned(pp, sentence)))

\* lines 83-89 as one call
RECURSIVE ScanAll(_, _, _, _)
ScanAll(conn, pp, sents, i) ==
    IF i > Len(sents) THEN conn
    ELSE ScanAll(ScanOne(conn, pp, sents[i]), pp, sents, i + 1)

FindDirectConnections(pp, sents) == SortedAdjacency(ScanAll(<<>>, pp, sents, 1))

\* lines 84-88: one sentence of the outer loop
ScanSentence ==
    /\ pc = "scan"
    /\ si <= Len(sentences)
    /\ connections' = ScanOne(connections, people, sentences[si])
    /\ si' = si + 1
    /\ UNCHANGED <<pc, people, sentences, result>>
    /\ UNCHANGED <<pathVars, taskVars>>

\* line 89: the loop is over, the sorted adjacency lists are returned
ReturnConnections ==
    /\ pc = "scan"
    /\ si > Len(sentences)
    /\ result' = SortedAdjacency(connections)
    /\ pc' = "returned"
    /\ UNCHANGED <<people, sentences, connections, si>>
    /\ UNCHANGED <<pathVars, taskVars>>

\* words and sentences of the corpus
And == <<" ","a","n","d"," ">>
Talked == <<" ","t","a","l","k","e","d",".">>
Met == <<" ","m","e","t"," ">>
Byron == <<"B","y","r","o","n">>

\* the first word of a name, lowercased, as an "other name"
RECURSIVE FirstWord(_)
FirstWord(s) ==
    IF s = <<>> \/ Head(s) = " " THEN <<>> ELSE <<Head(s)>> \o FirstWord(Tail(s))
Nick(name) == Lower(FirstWord(name))
Upper(s) == [i \in 1..Len(s) |->
               IF \E j \in 1..26 : LowerLetters[j] = s[i]
               THEN UpperLetters[CHOOSE j \in 1..26 : LowerLetters[j] = s[i]]
               ELSE s[i]]

SentencePool ==
    { HarryPotter \o And \o HermioneGranger \o Talked,
      RonWeasley \o And \o HarryPotter \o Talked,
      Upper(Nick(HermioneGranger)) \o Met \o DracoMalfoy \o And \o Nick(RonWeasley),
      Byron \o Met \o LunaLovegood,
      Nick(HarryPotter) \o <<",">> \o Nick(HermioneGranger) \o And
          \o Nick(RonWeasley) \o And \o Nick(DracoMalfoy),
      DracoMalfoy \o Talked,
      <<>> }

MaxSentences == 2

SentenceLists == UNION {[1..n -> SentencePool] : n \in 0..MaxSentences}

\* a person is absent, known by the lowercased name, or also by a nickname
AliasSet(name, withNick) ==
    IF withNick THEN {Lower(name), Nick(name)} ELSE {Lower(name)}
PeopleMaps ==
    UNION { {[n \in K |-> AliasSet(n, c[n])] : c \in [K -> BOOLEAN]}
            : K \in SUBSET Persons }

InitConn ==
    /\ pc = "scan"
    /\ people \in PeopleMaps
    /\ sentences \in SentenceLists
    /\ connections = <<>>
    /\ si = 1
    /\ result = None
    /\ graph = <<>>
    /\ person = None
    /\ target = None
    /\ max_depth = 0
    /\ queue = <<>>
    /\ paths = <<>>
    /\ current = None
    /\ path = <<>>
    /\ ni = 0
    /\ entry = None
    /\ sentence_file = None
    /\ people_file = None
    /\ common_words_file = None
    /\ data_loader = None
    /\ task_manager = None
    /\ graph_analyzer = None
    /\ output = <<>>
    /\ exit_status = None
    /\ calls = <<>>

NextConn == ScanSentence \/ ReturnConnections

SpecConn == InitConn /\ [][NextConn]_vars

(***************************************************************************)
(* String helpers used by DataLoader, TextProcessor and WordCounter.       *)
(***************************************************************************)
\* s.split(c) for a one-character separator: empty pieces are kept
RECURSIVE SplitOn(_, _)
SplitOn(s, c) ==
    IF \A i \in 1..Len(s) : s[i] # c THEN <<s>>
    ELSE LET i == CHOOSE k \in 1..Len(s) :
                      s[k] = c /\ \A j \in 1..(k-1) : s[j] # c
         IN  <<SubSeq(s, 1, i - 1)>> \o SplitOn(SubSeq(s, i + 1, Len(s)), c)

NonEmpty(w) == w # <<>>

\* s.split(): pieces between runs of whitespace, no empty piece (the space is
\* the only whitespace character of the model's character set)
SplitWords(s) == SelectSeq(SplitOn(s, " "), NonEmpty)

\* s.strip()
RECURSIVE LStrip(_)
LStrip(s) == IF s # <<>> /\ Head(s) = " " THEN LStrip(Tail(s)) ELSE s
RECURSIVE RStrip(_)
RStrip(s) ==
    IF s # <<>> /\ s[Len(s)] = " " THEN RStrip(SubSeq(s, 1, Len(s) - 1)) ELSE s
Strip(s) == RStrip(LStrip(s))

\* sep.join(ws)
RECURSIVE Join(_, _)
Join(sep, ws) ==
    IF ws = <<>> THEN <<>>
    ELSE IF Len(ws) = 1 THEN ws[1]
    ELSE ws[1] \o sep \o Join(sep, Tail(ws))

\* sorted(xs) for a list of str (duplicates kept)
RECURSIVE Insert(_, _)
Insert(x, xs) ==
    IF xs = <<>> THEN <<x>>
    ELSE IF StrLess(x, Head(xs)) THEN <<x>> \o xs
    ELSE <<Head(xs)>> \o Insert(x, Tail(xs))
RECURSIVE SortedList(_)
SortedList(xs) == IF xs = <<>> THEN <<>> ELSE Insert(Head(xs), SortedList(Tail(xs)))

\* dict(sorted(d.items())): the items in key order
SortedItems(d) ==
    LET ks == Sorted(DOMAIN d) IN [i \in 1..Len(ks) |-> <<ks[i], d[ks[i]]>>]

\* d[k] = v on a dict
DictSet(d, k, v) == [x \in (DOMAIN d) \cup {k} |-> IF x = k THEN v ELSE d[x]]

\* d[k] += 1 on a defaultdict(int)
DictInc(d, k) == DictSet(d, k, (IF k \in DOMAIN d THEN d[k] ELSE 0) + 1)

(***************************************************************************)
(* DataLoader                                                              *)
(***************************************************************************)
InvalidInput == <<"i","n","v","a","l","i","d"," ","i","n","p","u","t">>
SentenceHeader == <<"s","e","n","t","e","n","c","e">>
NameHeader == <<"N","a","m","e">>
WordHeader == <<"w","o","r","d">>

\* a file: whether open() succeeds, and the rows csv.reader yields
File(rows) == [readable |-> TRUE, rows |-> rows]
MissingFile == [readable |-> FALSE, rows |-> <<>>]

Failed == [ok |-> FALSE, value |-> <<>>]
Ok(v) == [ok |-> TRUE, value |-> v]

\* lines 16-27; Failed stands for the except branch (print, sys.exit(1))
ReadCsv(file, expected_header, single_column) ==
    IF ~file.readable THEN Failed
    ELSE IF file.rows = <<>> THEN Failed
    ELSE LET header == Head(file.rows)
             reader == Tail(file.rows)
         IN  IF header = <<>> \/ (~single_column /\ header[1] # expected_header)
             THEN Failed
             ELSE IF single_column
                  THEN IF \E i \in 1..Len(reader) : reader[i] = <<>>
                       THEN Failed
                       ELSE Ok([i \in 1..Len(reader) |-> reader[i][1]])
                  ELSE Ok(reader)

\* lines 36-37: the entry one row adds to people
RowAliases(row) ==
    LET name == row[1]
        other_names == IF row[2] # <<>> THEN SplitOn(row[2], ",") ELSE <<>>
    IN  {Lower(name)} \cup {Lower(Strip(other_names[i])) : i \in 1..Len(other_names)}

\* lines 33-37: the loop over rows
RECURSIVE PeopleFromRows(_, _)
PeopleFromRows(pp, rows) ==
    IF rows = <<>> THEN pp
    ELSE LET row == Head(rows) IN
         IF Len(row) < 2 THEN PeopleFromRows(pp, Tail(rows))
         ELSE PeopleFromRows(DictSet(pp, row[1], RowAliases(row)), Tail(rows))

\* line 32: header, rows = self.read_csv(file_path, "Name"), []
\* the tuple assignment binds header to the rows read and rows to []
RowsLoopedOver(readRows) ==
    LET header == readRows
        rows == <<>>
    IN  rows

\* lines 29-38
ReadPeopleCsv(file) ==
    LET r == ReadCsv(file, NameHeader, FALSE)
    IN  IF ~r.ok THEN Failed
        ELSE Ok(PeopleFromRows(<<>>, RowsLoopedOver(r.value)))

(***************************************************************************)
(* TextProcessor, WordCounter, PersonAnalyzer.count_mentions               *)
(***************************************************************************)
\* line 44
CommonWordSet(common_words) == {Lower(common_words[i]) : i \in 1..Len(common_words)}

\* lines 46-48
Preprocess(cw, sentence) ==
    LET words == SplitWords(sentence)
        keep(w) == Lower(w) \notin cw
    IN  Join(<<" ">>, SelectSeq(words, keep))

DefaultN == 2

\* lines 60-63: the sequences of one sentence, from position i
RECURSIVE CountInSentence(_, _, _, _)
CountInSentence(counts, words, i, n) ==
    IF i > Len(words) - n + 1 THEN counts
    ELSE CountInSentence(DictInc(counts, Join(<<" ">>, SubSeq(words, i, i + n - 1))),
                         words, i + 1, n)

\* lines 58-64
RECURSIVE CountSequences(_, _, _, _)
CountSequences(counts, sents, k, n) ==
    IF k > Len(sents) THEN counts
    ELSE CountSequences(CountInSentence(counts, SplitWords(sents[k]), 1, n),
                        sents, k + 1, n)
CountWordSequences(sents, n) == SortedItems(CountSequences(<<>>, sents, 1, n))

\* lines 72-79
CountMentions(pp, sents) ==
    LET count(name) == Cardinality({k \in 1..Len(sents) : name \in Mentioned(pp, sents[k])})
        counted == {name \in DOMAIN pp : count(name) > 0}
    IN  SortedItems([name \in counted |-> count(name)])

(***************************************************************************)
(* TaskManager and the command-line entry point                            *)
(***************************************************************************)
DefaultMaxDepth == 3

NoObject == [isNone |-> TRUE]
GraphAnalyzer(conn) == [isNone |-> FALSE, graph |-> conn]

\* json.dumps of a str, a list or a dict
Printed(kind, value) == [kind |-> kind, value |-> value]

\* variant: the constructor already builds the GraphAnalyzer
EagerGraphAnalyzer(dl) ==
    GraphAnalyzer(FindDirectConnections(dl.people,
        [i \in 1..Len(dl.sentences) |-> dl.sentences[i][1]]))

\* line 124
InitialGraphAnalyzer(dl) == NoObject

\* line 137: not self.graph_analyzer (an object without __bool__/__len__ is true)
NotSet(ga) == ga = NoObject

\* [s[0] for s in data_loader.sentences]
FirstColumns(rows) == [i \in 1..Len(rows) |-> rows[i][1]]

\* lines 155-158: DataLoader(...) then TaskManager(data_loader)
Load ==
    /\ pc = "main"
    /\ LET s == ReadCsv(sentence_file, SentenceHeader, FALSE)
           p == ReadPeopleCsv(people_file)
           c == ReadCsv(common_words_file, WordHeader, TRUE)
       IN  IF ~s.ok \/ ~p.ok \/ ~c.ok
           THEN \* lines 25-27: the first failing read prints and exits
                /\ output' = Append(output, Printed("string", InvalidInput))
                /\ exit_status' = 1
                /\ pc' = "exited"
                /\ UNCHANGED <<data_loader, task_manager, graph_analyzer>>
           ELSE LET dl == [sentences |-> s.value, people |-> p.value,
                           common_words |-> c.value]
                IN  IF \E i \in 1..Len(dl.sentences) : dl.sentences[i] = <<>>
                    THEN \* line 122: s[0] of an empty row raises IndexError
                         /\ data_loader' = dl
                         /\ exit_status' = 1
                         /\ pc' = "crashed"
                         /\ UNCHANGED <<task_manager, graph_analyzer, output>>
                    ELSE /\ data_loader' = dl
                         /\ task_manager' =
                              [common_words |-> CommonWordSet(dl.common_words),
                               sentences |->
                                  [i \in 1..Len(dl.sentences) |->
                                      Preprocess(CommonWordSet(dl.common_words),
                                                 dl.sentences[i][1])],
                               people |-> dl.people]
                         /\ graph_analyzer' = InitialGraphAnalyzer(dl)
                         /\ pc' = "ready"
                         /\ UNCHANGED <<output, exit_status>>
    /\ UNCHANGED <<fileVars, calls>>
    /\ UNCHANGED <<pathVars, connVars>>

MaxCalls == 3

\* a further call is made: the command line makes exactly one (line 159)
MayCall ==
    /\ pc = "ready"
    /\ Len(calls) < (IF entry = "main" THEN 1 ELSE MaxCalls)

\* lines 127-128, 144
ExecuteTask1 ==
    /\ MayCall
    /\ calls' = Append(calls, 1)
    /\ output' = Append(output, Printed("array",
          SortedList([i \in 1..Len(data_loader.sentences) |->
              Preprocess(task_manager.common_words, data_loader.sentences[i][1])])))
    /\ UNCHANGED <<pc, fileVars, data_loader, task_manager, graph_analyzer, exit_status>>
    /\ UNCHANGED <<pathVars, connVars>>

\* lines 129-130, 144
ExecuteTask2 ==
    /\ MayCall
    /\ calls' = Append(calls, 2)
    /\ output' = Append(output, Printed("object",
          CountWordSequences(task_manager.sentences, DefaultN)))
    /\ UNCHANGED <<pc, fileVars, data_loader, task_manager, graph_analyzer, exit_status>>
    /\ UNCHANGED <<pathVars, connVars>>

\* lines 131-132, 144
ExecuteTask3 ==
    /\ MayCall
    /\ calls' = Append(calls, 3)
    /\ output' = Append(output, Printed("object",
          CountMentions(task_manager.people, FirstColumns(data_loader.sentences))))
    /\ UNCHANGED <<pc, fileVars, data_loader, task_manager, graph_analyzer, exit_status>>
    /\ UNCHANGED <<pathVars, connVars>>

\* lines 133-135, 144
ExecuteTask6 ==
    /\ MayCall
    /\ calls' = Append(calls, 6)
    /\ LET res == FindDirectConnections(task_manager.people,
                                        FirstColumns(data_loader.sentences))
       IN  /\ graph_analyzer' = GraphAnalyzer(res)
           /\ output' = Append(output, Printed("object", res))
    /\ UNCHANGED <<pc, fileVars, data_loader, task_manager, exit_status>>
    /\ UNCHANGED <<pathVars, connVars>>

\* lines 136-140, 144
ExecuteTask7 ==
    /\ MayCall
    /\ calls' = Append(calls, 7)
    /\ IF NotSet(graph_analyzer)
       THEN /\ output' = Append(output, Printed("string", InvalidInput))
            /\ exit_status' = 1
            /\ pc' = "exited"
       ELSE /\ output' = Append(output, Printed("array",
                  FindIndirectConnections(graph_analyzer.graph, HarryPotter,
                                          HermioneGranger, DefaultMaxDepth)))
            /\ UNCHANGED <<pc, exit_status>>
    /\ UNCHANGED <<fileVars, data_loader, task_manager, graph_analyzer>>
    /\ UNCHANGED <<pathVars, connVars>>

\* lines 141-144: any other task number
ExecuteOther ==
    /\ MayCall
    /\ \E task_number \in {0, 4, 5, 8} :
          calls' = Append(calls, task_number)
    /\ output' = Append(output, Printed("string", InvalidInput))
    /\ UNCHANGED <<pc, fileVars, data_loader, task_manager, graph_analyzer, exit_status>>
    /\ UNCHANGED <<pathVars, connVars>>

\* line 159 returns: the interpreter ends with status 0
MainReturns ==
    /\ pc = "ready"
    /\ entry = "main"
    /\ Len(calls) = 1
    /\ pc' = "exited"
    /\ exit_status' = 0
    /\ UNCHANGED <<fileVars, data_loader, task_manager, graph_analyzer, output, calls>>
    /\ UNCHANGED <<pathVars, connVars>>

\* the input files
OtherNamesHeader == <<"O","t","h","e","r"," ","N","a","m","e","s">>
TheBoy == <<" ","T","h","e"," ","B","o","y"," ">>

PeopleRowPool ==
    { <<HarryPotter, Nick(HarryPotter) \o <<",">> \o TheBoy>>,
      <<HermioneGranger, <<>> >>,
      <<RonWeasley>> }

MaxPeopleRows == 1

PeopleFiles ==
    { File(<<<<NameHeader, OtherNamesHeader>>>> \o rows) :
        rows \in UNION {[1..n -> PeopleRowPool] : n \in 0..MaxPeopleRows} }
    \cup { File(<<<<Lower(NameHeader), OtherNamesHeader>>>>) }

SentenceFiles ==
    { File(<<<<SentenceHeader>>,
             <<HarryPotter \o And \o HermioneGranger \o Talked>>,
             <<RonWeasley \o And \o HarryPotter \o Talked>>>>),
      File(<<<<SentenceHeader>>, <<Nick(HarryPotter) \o And \o TheBoy>>, <<>>>>),
      File(<<<<WordHeader>>, <<Byron \o Talked>>>>),
      MissingFile }

CommonWordsFiles ==
    { File(<<<<WordHeader>>, <<Upper(Strip(And))>>, <<Strip(Talked)>>>>),
      File(<<<<WordHeader>>, <<>>>>) }

InitTask ==
    /\ pc = "main"
    /\ entry \in {"main", "instance"}
    /\ sentence_file \in SentenceFiles
    /\ people_file \in PeopleFiles
    /\ common_words_file \in CommonWordsFiles
    /\ data_loader = NoObject
    /\ task_manager = NoObject
    /\ graph_analyzer = NoObject
    /\ output = <<>>
    /\ exit_status = None
    /\ calls = <<>>
    /\ graph = <<>>
    /\ person = None
    /\ target = None
    /\ max_depth = 0
    /\ queue = <<>>
    /\ paths = <<>>
    /\ current = None
    /\ path = <<>>
    /\ ni = 0
    /\ people = <<>>
    /\ sentences = <<>>
    /\ connections = <<>>
    /\ si = 0
    /\ result = None

NextTask ==
    \/ Load
    \/ ExecuteTask1
    \/ ExecuteTask2
    \/ ExecuteTask3
    \/ ExecuteTask6
    \/ ExecuteTask7
    \/ ExecuteOther
    \/ MainReturns

SpecTask == InitTask /\ [][NextTask]_vars

(***************************************************************************)
(* Properties of find_indirect_connections (under SpecPath).               *)
(***************************************************************************)
Returned == pc = "done" /\ si = 0 /\ result = None

Distinct(p) == \A i, j \in 1..Len(p) : i # j => p[i] # p[j]

IsEdge(g, a, b) == a \in DOMAIN g /\ b \in Range(g[a])

\* every simple path from s to t along edges of g with at most d nodes
SimplePaths(g, s, t, d) ==
    UNION { { p \in [1..n -> Persons] :
                /\ p[1] = s
                /\ p[n] = t
                /\ \A i \in 1..(n-1) : IsEdge(g, p[i], p[i+1])
                /\ Distinct(p) }
            : n \in 2..(IF d < NumPersons THEN d ELSE NumPersons) }

C2_NoRepeatedNode ==
    Returned => \A i \in 1..Len(paths) : Distinct(paths[i])

\* C3: on a symmetric graph, for distinct keys source and target, every simple
\* path from source to target with at most max_depth nodes is returned.
C3_Complete ==
    (Returned /\ person # target /\ person \in DOMAIN graph /\ target \in DOMAIN graph) =>
        \A p \in SimplePaths(graph, person, target, max_depth) :
            \E i \in 1..Len(paths) : paths[i] = p

\* a search that returned a path with an intermediate node within the bound
C3_Witness ==
    /\ Returned /\ person # target
    /\ \E p \in SimplePaths(graph, person, target, max_depth) :
          Len(p) >= 3 /\ \E i \in 1..Len(paths) : paths[i] = p

\* C4: a search from a key of the graph to itself with bound 3 returns [].
C4_SelfSearchEmpty ==
    (Returned /\ person = target /\ person \in DOMAIN graph /\ max_depth = 3)
        => paths = <<>>

\* C5: with the source or the target missing from the graph the call returns
\* [] in one step: the queue is never created, no entry is dequeued and the
\* graph is left as it was.
C5_MissingEndpointReturnsEmpty ==
    [][(pc = "start" /\ (person \notin DOMAIN graph \/ target \notin DOMAIN graph)) =>
          /\ pc' = "done"
          /\ paths' = <<>>
          /\ queue' = <<>>
          /\ current' = None
          /\ graph' = graph]_vars

\* a call that returned with the source present and the target missing
C5_Witness ==
    /\ Returned
    /\ person \in DOMAIN graph
    /\ target \notin DOMAIN graph
    /\ paths = <<>>
    /\ current = None

\* C8: the queue is always in non-decreasing path-length order, every entry
\* is at most one node longer than the entry being expanded, and at the break
\* every entry still queued is longer than max_depth.
C8_QueueOrdered ==
    /\ \A i, j \in 1..Len(queue) : i < j => Len(queue[i][2]) <= Len(queue[j][2])
    /\ pc = "for" =>
          \A i \in 1..Len(queue) :
              Len(path) <= Len(queue[i][2]) /\ Len(queue[i][2]) <= Len(path) + 1
    /\ (pc = "done" /\ Len(path) > max_depth) =>
          \A i \in 1..Len(queue) : Len(queue[i][2]) > max_depth

\* the loop stopped at the break with entries left in the queue
C8_Witness ==
    pc = "done" /\ Len(path) > max_depth /\ Len(queue) >= 2

(***************************************************************************)
(* Properties of find_direct_connections (under SpecConn).                 *)
(***************************************************************************)
Adjacent(g, a, b) == a \in DOMAIN g /\ b \in Range(g[a])

\* some single sentence mentions both a and b
CoMentioned(a, b) ==
    \E i \in 1..Len(sentences) :
        LET lowered == Lower(sentences[i])
        IN  /\ a \in DOMAIN people /\ b \in DOMAIN people
            /\ \E x \in people[a] : IsSubstring(x, lowered)
            /\ \E y \in people[b] : IsSubstring(y, lowered)

\* C6: the returned graph is symmetric, and every listed neighbor is a key.
C6_Symmetric ==
    pc = "returned" =>
        /\ \A a, b \in Persons : Adjacent(result, a, b) <=> Adjacent(result, b, a)
        /\ \A a \in DOMAIN result : Range(result[a]) \subseteq DOMAIN result

\* a returned graph in which one person has two neighbors
C6_Witness ==
    pc = "returned" /\ \E a \in DOMAIN result : Len(result[a]) >= 2

\* C7: the returned graph is exactly the co-mention graph: distinct a and b
\* are adjacent iff one sentence mentions both, nobody is adjacent to
\* themself, and the keys are exactly the people co-mentioned with another.
C7_CoMentionGraph ==
    pc = "returned" =>
        /\ DOMAIN result \subseteq Persons
        /\ \A a \in DOMAIN result : Range(result[a]) \subseteq Persons
        /\ \A a, b \in Persons : a # b => (Adjacent(result, a, b) <=> CoMentioned(a, b))
        /\ \A a \in Persons : ~Adjacent(result, a, a)
        /\ \A a \in Persons :
              a \in DOMAIN result <=> \E b \in Persons \ {a} : CoMentioned(a, b)
        /\ \A a \in DOMAIN result : result[a] # <<>>

\* a returned graph built from two sentences, with a person mentioned alone
\* in some sentence and absent from the keys
C7_Witness ==
    /\ pc = "returned"
    /\ Len(sentences) = 2
    /\ Cardinality(DOMAIN result) >= 2
    /\ \E a \in DOMAIN people \ DOMAIN result :
          \E i \in 1..Len(sentences) : a \in Mentioned(people, sentences[i])

(***************************************************************************)
(* Properties of DataLoader and TaskManager (under SpecTask).              *)
(***************************************************************************)
\* C9: when the people file is valid, every data row with at least two
\* columns has its name as a key of the people map, and the key's alias set
\* holds the lowercased name and each other name trimmed and lowercased.
C9_PeopleMapHoldsRows ==
    pc = "ready" =>
        \A i \in 2..Len(people_file.rows) :
            LET row == people_file.rows[i] IN
            Len(row) >= 2 =>
                /\ row[1] \in DOMAIN data_loader.people
                /\ Lower(row[1]) \in data_loader.people[row[1]]
                /\ row[2] # <<>> =>
                      \A other \in Range(SplitOn(row[2], ",")) :
                          Lower(Strip(other)) \in data_loader.people[row[1]]

InvalidInputPrinted(out) == out.kind = "string" /\ out.value = InvalidInput

\* C10: execute(7) prints a path list only if execute(6) ran earlier on the
\* same TaskManager; otherwise it prints "invalid input" and the process
\* ends with status 1; only execute(6) sets graph_analyzer; and the command
\* line, which makes one call, never prints a path list for task 7.
C10_Task7NeedsTask6 ==
    /\ \A i \in 1..Len(calls) :
          (calls[i] = 7 /\ output[i].kind = "array") =>
              \E j \in 1..(i-1) : calls[j] = 6
    /\ \A i \in 1..Len(calls) :
          (calls[i] = 7 /\ ~(\E j \in 1..(i-1) : calls[j] = 6)) =>
              /\ InvalidInputPrinted(output[i])
              /\ exit_status = 1
              /\ pc = "exited"
              /\ i = Len(calls)
    /\ graph_analyzer # NoObject => \E j \in 1..Len(calls) : calls[j] = 6
    /\ entry = "main" =>
          /\ Len(calls) <= 1
          /\ calls = <<7>> =>
                Len(output) = 1 /\ InvalidInputPrinted(output[1]) /\ exit_status = 1

\* task 7 printed a path list after task 6 on the same TaskManager
C10_Witness ==
    \E i \in 1..Len(calls) :
        /\ calls[i] = 7
        /\ output[i].kind = "array"
        /\ \E j \in 1..(i-1) : calls[j] = 6

====
